---- MODULE Spec2Model ----
(***************************************************************************)
(* Incident-triage agent: Observe -> Reason -> Decide -> Act -> Memory.    *)
(*                                                                         *)
(* Conventions of the model                                                *)
(*  - a Python dict is a TLA+ record; dict.get(k, d) is Get(d, k, default) *)
(*    so that an absent key is an absent field, not a default value;       *)
(*  - a confidence is kept in hundredths: 0.6 is 60, 0.85 is 85, 0.4 is 40 *)
(*    (every confidence the code compares or emits is a multiple of 0.01); *)
(*  - Python's None is the record None;                                    *)
(*  - a JSON file on disk is [exists, ok, recs]: ok is FALSE when the text *)
(*    on disk does not parse (empty or cut short), recs are the records    *)
(*    whose text is on disk;                                               *)
(*  - time.time() reads the clock now, which moves on between two reads.   *)
(***************************************************************************)
EXTENDS Integers, Sequences, FiniteSets, TLC

VARIABLES
    raw,           \* the raw signal batch handed to Observer.observe
    obsCounter,    \* Observer.observation_id
    observation,   \* the Observation handed to Reasoner.reason / Decider.decide
    llmConfigured, \* Reasoner.llm is set
    useLlmEnv,     \* the process environment has USE_LLM = true (or unset)
    reasonPc,      \* position of Reasoner.reason: idle, calling, returned
    wire,          \* what the delegate's HTTP exchange brought back
    reasoning,     \* the Reasoning handed to Decider.decide
    decision,      \* Decider.decide's result (decision_output), None before
    actPc,         \* position of Actor.act: idle, loaded, opened, returned
    actUpdate,     \* Actor.act's state_update, None before it is built
    actExisting,   \* Actor._write_state's local list `existing`
    actReadFailed, \* Actor._write_state caught a JSONDecodeError
    stateFile,     \* agent_state.json
    acts,          \* history: the state_updates Actor.act returned, in order
    memFile,       \* agent_memory.json
    memPc,         \* per caller, position of the Memory call: idle, loaded, opened
    memCall,       \* per caller, the Memory call in progress or last made
    memLocal,      \* per caller, the local list `memory` of the call
    memResult,     \* per caller, how the last call ended: returned, raised
    nextId,        \* the next value of uuid.uuid4(): never one given before
    calls,         \* history: the Memory calls that ended, in order
    now            \* the clock read by time.time()

observerVars == <<raw, obsCounter>>
reasonerVars == <<llmConfigured, useLlmEnv, reasonPc, wire>>
actorVars == <<actPc, actUpdate, actExisting, actReadFailed, stateFile, acts>>

pipelineVars == <<observerVars, observation, reasonerVars, reasoning,
                  decision, actorVars>>
memoryVars == <<memFile, memPc, memCall, memLocal, memResult, nextId, calls>>

vars == <<observerVars, observation, reasonerVars, reasoning, decision,
          actorVars, memoryVars, now>>

----------------------------------------------------------------------------
(* Bounds of the model *)

MaxHyps == 2
MaxDecisions == 2
MaxEntries == 2
MaxCalls == 4
MaxTime == 5

----------------------------------------------------------------------------
(* Python helpers *)

None == [py_none |-> TRUE]

Get(d, k, default) == IF k \in DOMAIN d THEN d[k] ELSE default

SeqUpTo(S, n) == UNION {[1..k -> S] : k \in 0..n}

Range(s) == {s[i] : i \in DOMAIN s}

\* d.get(k) == v: an absent key reads as None, which equals no value v
Is(d, k, v) == k \in DOMAIN d /\ d[k] = v

\* bool(d.get(k)) for a key that holds a boolean: None and False are falsy
Truthy(d, k) == Is(d, k, TRUE)

\* a call ends with an exception or with a value
Raised(error) == [raised |-> TRUE, error |-> error]
Returned(value) == [raised |-> FALSE, value |-> value]

----------------------------------------------------------------------------
(* agent/observe.py *)

\* {}: the dict with no key
EmptyDict == [k \in {} |-> 0]

\* counts[key] += 1 on a defaultdict(int)
Bump(counts, key) ==
    [k \in DOMAIN counts \cup {key} |->
        IF k \in DOMAIN counts
        THEN (IF k = key THEN counts[k] + 1 ELSE counts[k])
        ELSE 1]

\* error.get("type", "unknown")
ErrorType(error) == Get(error, "type", "unknown")

\* m.get("stage", "unknown")
StageOf(m) == Get(m, "stage", "unknown")

RECURSIVE CountErrorTypes(_, _)
CountErrorTypes(counts, errors) ==
    IF errors = <<>> THEN counts
    ELSE CountErrorTypes(Bump(counts, ErrorType(Head(errors))), Tail(errors))

RECURSIVE CountStages(_, _)
CountStages(counts, states) ==
    IF states = <<>> THEN counts
    ELSE CountStages(Bump(counts, StageOf(Head(states))), Tail(states))

\* the keys of error_types in the order the dict received them
RECURSIVE ErrorTypeOrder(_, _)
ErrorTypeOrder(seen, errors) ==
    IF errors = <<>> THEN seen
    ELSE LET t == ErrorType(Head(errors))
         IN  ErrorTypeOrder(IF t \in Range(seen) THEN seen ELSE Append(seen, t),
                            Tail(errors))

\* JSON null where a bucket was expected. A set of TLC values cannot hold a
\* sequence and a record together, so the null bucket is written as the
\* one-element sequence of None; the list [None] is not among the inputs.
NullBucket == <<None>>

\* not value, line 136: None and the empty list are falsy
Falsy(value) == value = <<>> \/ value = NullBucket

\* len(None) at lines 79 and 80, iteration over None at lines 82 and 93;
\* signals["webhooks"] is only ever tested for truth
Observer_raises(signals) ==
    \/ signals.tickets = NullBucket
    \/ signals.errors = NullBucket
    \/ signals.checkouts = NullBucket
    \/ signals.migration_states = NullBucket

Observer_ingest_signals(raw_signals) ==
    [tickets |-> Get(raw_signals, "tickets", <<>>),
     errors |-> Get(raw_signals, "errors", <<>>),
     checkouts |-> Get(raw_signals, "checkouts", <<>>),
     webhooks |-> Get(raw_signals, "webhooks", <<>>),
     migration_states |-> Get(raw_signals, "migration_states", <<>>)]

Observer_compute_stats(signals) ==
    [ticket_count |-> Len(signals.tickets),
     error_count |-> Len(signals.errors),
     failed_checkouts |->
        Cardinality({i \in DOMAIN signals.checkouts :
                        Is(signals.checkouts[i], "status", "failed")}),
     error_types |-> CountErrorTypes(EmptyDict, signals.errors),
     migration_stage_distribution |->
        CountStages(EmptyDict, signals.migration_states)]

\* the loop over stats["error_types"].items(), lines 117-124
RECURSIVE RepeatedErrors(_, _)
RepeatedErrors(types, counts) ==
    IF types = <<>> THEN <<>>
    ELSE LET t == Head(types)
         IN  (IF counts[t] >= 5
              THEN <<[type |-> "repeated_error", error_type |-> t,
                      count |-> counts[t], severity |-> "medium"]>>
              ELSE <<>>)
             \o RepeatedErrors(Tail(types), counts)

Observer_detect_anomalies(signals, stats) ==
    (IF stats.failed_checkouts > 0
     THEN <<[type |-> "checkout_failures", count |-> stats.failed_checkouts,
             severity |-> "high"]>>
     ELSE <<>>)
    \o RepeatedErrors(ErrorTypeOrder(<<>>, signals.errors), stats.error_types)

\* the estimate with 0.2 taken off for each missing source
Observer_estimate_confidence_steeper(signals) ==
    LET missing_sources ==
            Cardinality({k \in DOMAIN signals : Falsy(signals[k])})
        confidence == 100 - missing_sources * 20
    IN  IF confidence > 50 THEN confidence ELSE 50

\* confidence in hundredths: 1.0 - missing_sources * 0.1, at least 0.5
Observer_estimate_confidence(signals) ==
    LET missing_sources ==
            Cardinality({k \in DOMAIN signals : Falsy(signals[k])})
        confidence == 100 - missing_sources * 10
    IN  IF confidence > 50 THEN confidence ELSE 50

Observer_observe(raw_signals, id, t) ==
    LET signals == Observer_ingest_signals(raw_signals)
        stats == Observer_compute_stats(signals)
    IN  [observation_id |-> id,
         timestamp |-> t,
         signals |-> signals,
         stats |-> stats,
         anomalies |-> Observer_detect_anomalies(signals, stats),
         confidence |-> Observer_estimate_confidence(signals)]

\* AgentRunner.run_once line 110: the Observation, or the TypeError that
\* _compute_stats raises; the counter and the clock were read before it
Observe ==
    /\ raw # None
    /\ observation = None
    /\ obsCounter' = obsCounter + 1
    /\ observation' = IF Observer_raises(Observer_ingest_signals(raw))
                      THEN Raised("TypeError")
                      ELSE Observer_observe(raw, obsCounter', now)
    /\ now' = now + 1
    /\ UNCHANGED <<raw, reasonerVars, reasoning, decision, actorVars,
                   memoryVars>>

----------------------------------------------------------------------------
(* agent/llm_client.py *)

\* A JSON value is tagged with its type: a number, a string, null, a list
\* or an object. A number that stands for a confidence is in hundredths.
JNum(n) == [t |-> "num", num |-> n]
JStr(str) == [t |-> "str", str |-> str]
JNull == [t |-> "null"]
JList(items) == [t |-> "list", items |-> items]
JObj(fields) == [t |-> "obj", fields |-> fields]

\* generate, lines 23-62, on what the HTTP exchange brought back
OllamaClient_generate(w) ==
    IF w.kind = "timeout" THEN Raised("requests.Timeout")
    ELSE IF w.kind = "connection_error" THEN Raised("requests.ConnectionError")
    ELSE IF w.kind = "http_error" THEN Raised("requests.HTTPError")
    ELSE IF w.kind = "body_not_json" THEN Raised("JSONDecodeError")
    ELSE IF w.kind \in {"text_absent", "text_not_string", "text_blank"}
         THEN Raised("LLM returned empty response")
    ELSE IF w.kind = "text_not_json" THEN Raised("LLM returned invalid JSON")
    ELSE IF w.kind = "text_json_not_object"
         THEN Raised("LLM JSON root must be an object")
    ELSE Returned(w.parsed)

----------------------------------------------------------------------------
(* agent/reason.py *)

\* confidence < 0.85, in hundredths
LlmThreshold == 85

Reasoner_should_use_llm(obs) ==
    \/ Get(obs, "confidence", 100) < LlmThreshold
    \/ Len(Get(obs, "anomalies", <<>>)) >= 2

\* the condition of reason without its test of USE_LLM
Reasoner_selects_llm_whatever_env(obs) ==
    llmConfigured /\ Reasoner_should_use_llm(obs)

\* the condition of reason, line 27
Reasoner_selects_llm(obs) ==
    llmConfigured /\ useLlmEnv /\ Reasoner_should_use_llm(obs)

\* float(x) of a JSON value
NumericStrings == {"0.65"}

PyFloat(j) ==
    IF j.t = "num" THEN Returned(j.num)
    ELSE IF j.t = "str"
         THEN (IF j.str \in NumericStrings
               THEN Returned(65)
               ELSE Raised("could not convert string to float"))
    ELSE Raised("float() argument must be a string or a real number")

Reasoner_stringify(value) ==
    IF value.t = "str" THEN value.str
    ELSE IF value.t = "obj"
         THEN (IF "description" \in DOMAIN value.fields THEN value.fields.description
               ELSE IF "explanation" \in DOMAIN value.fields THEN value.fields.explanation
               ELSE IF "justification" \in DOMAIN value.fields
                    THEN value.fields.justification
               ELSE "json.dumps(value)")
    ELSE "str(value)"

\* lines 75-77
Reasoner_normalize_confidence(response) ==
    IF "confidence" \in DOMAIN response /\ response.confidence.t = "num"
    THEN response.confidence.num
    ELSE 50

\* one turn of the loop that drops an object whose confidence float() rejects
Reasoner_normalize_entry_drops_bad(acc, h, confidence) ==
    IF acc.raised THEN acc
    ELSE IF h.t = "obj"
         THEN LET f == PyFloat(Get(h.fields, "confidence", JNum(confidence)))
              IN  IF f.raised THEN acc
                  ELSE Returned(Append(acc.value,
                           [cause |-> Get(h.fields, "cause", "unknown"),
                            explanation |-> Get(h.fields, "explanation", ""),
                            confidence |-> f.value]))
    ELSE IF h.t = "str"
         THEN Returned(Append(acc.value,
                  [cause |-> h.str, explanation |-> "", confidence |-> confidence]))
    ELSE acc

\* one turn of the loop of lines 84-96: the hypotheses so far, or the raise
Reasoner_normalize_entry(acc, h, confidence) ==
    IF acc.raised THEN acc
    ELSE IF h.t = "obj"
         THEN LET f == PyFloat(Get(h.fields, "confidence", JNum(confidence)))
              IN  IF f.raised THEN f
                  ELSE Returned(Append(acc.value,
                           [cause |-> Get(h.fields, "cause", "unknown"),
                            explanation |-> Get(h.fields, "explanation", ""),
                            confidence |-> f.value]))
    ELSE IF h.t = "str"
         THEN Returned(Append(acc.value,
                  [cause |-> h.str, explanation |-> "", confidence |-> confidence]))
    ELSE acc

RECURSIVE Reasoner_normalize_entries(_, _, _)
Reasoner_normalize_entries(acc, entries, confidence) ==
    IF entries = <<>> THEN acc
    ELSE Reasoner_normalize_entries(
             Reasoner_normalize_entry(acc, Head(entries), confidence),
             Tail(entries), confidence)

\* lines 80-103
Reasoner_normalize_hypotheses(response, confidence) ==
    LET raw_hypotheses == Get(response, "hypotheses", JList(<<>>))
        kept == IF raw_hypotheses.t = "list"
                THEN Reasoner_normalize_entries(Returned(<<>>),
                                                raw_hypotheses.items, confidence)
                ELSE Returned(<<>>)
    IN  IF kept.raised THEN kept
        ELSE IF kept.value = <<>>
             THEN Returned(<<[cause |-> "unknown",
                              explanation |-> "LLM did not return a valid hypothesis",
                              confidence |-> 40]>>)
        ELSE kept

\* [self._stringify(a) for a in response.get(key, [])], lines 108-115: a
\* list is iterated, null and a number are not iterable. (A string or an
\* object would be iterated too; neither is among the responses used.)
Reasoner_stringify_all(response, key) ==
    LET items == Get(response, key, JList(<<>>))
    IN  IF items.t = "list"
        THEN Returned([i \in DOMAIN items.items |->
                         Reasoner_stringify(items.items[i])])
        ELSE Raised("object is not iterable")

\* the except branch, lines 119-132
Reasoner_llm_failed(error) ==
    [reasoning_mode |-> "llm_failed",
     hypotheses |-> <<[cause |-> "unknown",
                       explanation |-> "LLM failed or returned malformed output",
                       confidence |-> 40]>>,
     assumptions |-> <<>>,
     unknowns |-> <<"LLM reasoning failed">>,
     confidence |-> 40,
     error |-> error]

\* _reason_with_llm, lines 67-132, on what the HTTP exchange brought back
Reasoner_reason_with_llm(obs, w) ==
    LET generated == OllamaClient_generate(w)
    IN  IF generated.raised THEN Reasoner_llm_failed(generated.error)
        ELSE
        LET response == generated.value
            confidence == Reasoner_normalize_confidence(response)
            hypotheses == Reasoner_normalize_hypotheses(response, confidence)
            assumptions == Reasoner_stringify_all(response, "assumptions")
            unknowns == Reasoner_stringify_all(response, "unknowns")
        IN  IF hypotheses.raised THEN Reasoner_llm_failed(hypotheses.error)
            ELSE IF assumptions.raised THEN Reasoner_llm_failed(assumptions.error)
            ELSE IF unknowns.raised THEN Reasoner_llm_failed(unknowns.error)
            ELSE [reasoning_mode |-> "llm",
                  hypotheses |-> hypotheses.value,
                  assumptions |-> assumptions.value,
                  unknowns |-> unknowns.value,
                  confidence |-> confidence]

\* max(h["confidence"] for h in hypotheses)
RECURSIVE MaxConfidence(_)
MaxConfidence(hs) ==
    IF Len(hs) = 1 THEN hs[1].confidence
    ELSE LET m == MaxConfidence(Tail(hs))
         IN  IF hs[1].confidence >= m THEN hs[1].confidence ELSE m

\* a rule whose hypothesis is appended without its if
Reasoner_rule_unconditional(fires, cause, explanation, confidence) ==
    <<[cause |-> cause, explanation |-> explanation,
       confidence |-> confidence]>>

\* if <condition>: hypotheses.append({...}), lines 143-173
Reasoner_rule(fires, cause, explanation, confidence) ==
    IF fires
    THEN <<[cause |-> cause, explanation |-> explanation,
            confidence |-> confidence]>>
    ELSE <<>>

\* _reason_deterministic, lines 137-188
Reasoner_reason_deterministic(obs) ==
    LET stats == Get(obs, "stats", EmptyDict)
        error_types == Get(stats, "error_types", EmptyDict)
        fired ==
            Reasoner_rule(Get(stats, "failed_checkouts", 0) >= 5,
                "migration_misconfiguration",
                "High number of checkout failures detected after migration", 80)
            \o Reasoner_rule(Get(error_types, "webhook_401", 0) >= 3,
                "webhook_auth_failure",
                "Repeated webhook authentication failures detected", 70)
            \o Reasoner_rule(Get(error_types, "frontend_state_mismatch", 0) >= 3,
                "frontend_backend_mismatch",
                "Frontend and backend states are inconsistent", 65)
            \o Reasoner_rule(Get(error_types, "unknown", 0) >= 10,
                "platform_regression",
                "High volume of unknown errors suggests a platform regression", 60)
        hypotheses ==
            IF fired = <<>>
            THEN <<[cause |-> "normal_operation",
                    explanation |-> "System signals are within expected parameters",
                    confidence |-> 90]>>
            ELSE fired
    IN  [reasoning_mode |-> "deterministic",
         hypotheses |-> hypotheses,
         assumptions |-> <<"Observed signals accurately reflect system behavior">>,
         unknowns |-> <<"Merchant-specific configurations not visible">>,
         confidence |-> MaxConfidence(hypotheses)]

\* run_once line 111 is reached: observe returned an Observation
Observed == observation # None /\ "raised" \notin DOMAIN observation

\* reason, lines 24-32, when the deterministic strategy is selected
ReasonDeterministic ==
    /\ reasonPc = "idle"
    /\ Observed
    /\ reasoning = None
    /\ ~Reasoner_selects_llm(observation)
    /\ reasoning' = Reasoner_reason_deterministic(observation)
    /\ reasonPc' = "returned"
    /\ UNCHANGED <<observerVars, observation, llmConfigured, useLlmEnv, wire,
                   decision, actorVars, memoryVars, now>>

\* reason line 29 and _reason_with_llm lines 71-72: the request is sent
ReasonCallDelegate ==
    /\ reasonPc = "idle"
    /\ Observed
    /\ reasoning = None
    /\ Reasoner_selects_llm(observation)
    /\ reasonPc' = "calling"
    /\ UNCHANGED <<observerVars, observation, llmConfigured, useLlmEnv, wire,
                   reasoning, decision, actorVars, memoryVars, now>>

\* _reason_with_llm lines 72-132: the exchange ends with w
DelegateReturns(exchanges) ==
    /\ reasonPc = "calling"
    /\ \E w \in exchanges :
          /\ wire' = w
          /\ reasoning' = Reasoner_reason_with_llm(observation, w)
    /\ reasonPc' = "returned"
    /\ UNCHANGED <<observerVars, observation, llmConfigured, useLlmEnv,
                   decision, actorVars, memoryVars, now>>

----------------------------------------------------------------------------
(* agent/decide.py *)

\* observation["confidence"] < 0.6, in hundredths
GateThreshold == 60

Decider_monitor_only(reason) ==
    [type |-> "monitor_only", reason |-> reason,
     requires_human_approval |-> FALSE]

Decider_support_guidance(reason, requires_human_approval) ==
    [type |-> "support_guidance", reason |-> reason,
     requires_human_approval |-> requires_human_approval]

Decider_escalate_engineering(severity, reason, requires_human_approval) ==
    [type |-> "escalate_engineering", severity |-> severity, reason |-> reason,
     requires_human_approval |-> requires_human_approval]

Decider_documentation_update(reason) ==
    [type |-> "documentation_update_suggestion", reason |-> reason,
     requires_human_approval |-> TRUE]

\* h.get("confidence", 0)
HypKey(h) == Get(h, "confidence", 0)

\* max that keeps the last of several maximal elements
PyMaxStep_last(best, h) == IF HypKey(h) >= HypKey(best) THEN h ELSE best

\* max(iterable, key=...) keeps the running maximum and replaces it only by
\* an element whose key is strictly greater
PyMaxStep(best, h) == IF HypKey(h) > HypKey(best) THEN h ELSE best

RECURSIVE PyMaxFrom(_, _)
PyMaxFrom(best, rest) ==
    IF rest = <<>> THEN best
    ELSE PyMaxFrom(PyMaxStep(best, Head(rest)), Tail(rest))

PyMax(hs) == PyMaxFrom(Head(hs), Tail(hs))

Decider_get_top_hypothesis(hypotheses) ==
    IF hypotheses = <<>>
    THEN [cause |-> "unknown", confidence |-> 0]
    ELSE PyMax(hypotheses)

\* the aggregate that reads the approval flag of the last decision only
Decider_assess_risk_last_only(decisions) ==
    IF \E i \in DOMAIN decisions : decisions[i].type = "escalate_engineering"
    THEN "high"
    ELSE IF decisions # <<>> /\ Truthy(decisions[Len(decisions)], "requires_human_approval")
         THEN "medium"
         ELSE "low"

Decider_assess_risk(decisions) ==
    IF \E i \in DOMAIN decisions : decisions[i].type = "escalate_engineering"
    THEN "high"
    ELSE IF \E i \in DOMAIN decisions :
                Truthy(decisions[i], "requires_human_approval")
         THEN "medium"
         ELSE "low"

Decider_trace(obs, rsn) ==
    [observation_confidence |-> obs.confidence,
     reasoning_confidence |-> rsn.confidence]

Decider_finalize(decisions, obs, rsn) ==
    [observation_id |-> obs.observation_id,
     decisions |-> decisions,
     risk_level |-> Decider_assess_risk(decisions),
     trace |-> Decider_trace(obs, rsn)]

Decider_block(reason, obs, rsn) ==
    [observation_id |-> obs.observation_id,
     decisions |-> <<[type |-> "block_auto_actions", reason |-> reason,
                      requires_human_approval |-> TRUE]>>,
     risk_level |-> "high",
     trace |-> Decider_trace(obs, rsn)]

\* the if/elif chain of decide, lines 41-95
Decider_policy(cause) ==
    IF cause = "platform_regression" THEN
        <<Decider_escalate_engineering("high",
              "Suspected platform regression across services", FALSE)>>
    ELSE IF cause = "webhook_auth_failure" THEN
        <<Decider_support_guidance(
              "Webhook authentication failures detected", FALSE)>>
    ELSE IF cause = "frontend_backend_mismatch" THEN
        <<Decider_documentation_update(
              "Frontend and backend state mismatch observed"),
          Decider_monitor_only(
              "Mismatch may resolve after configuration sync")>>
    ELSE IF cause = "migration_misconfiguration" THEN
        <<Decider_support_guidance(
              "Likely merchant-side migration misconfiguration", FALSE)>>
    ELSE IF cause = "normal_operation" THEN
        <<Decider_monitor_only("System operating normally")>>
    ELSE
        <<Decider_monitor_only("Root cause unclear, monitoring for changes")>>

\* the gate with the threshold 0.5 in place of 0.6
Decider_gate_half(obs) == obs.confidence < 50

Decider_gate(obs) == obs.confidence < GateThreshold

Decider_decide(obs, rsn) ==
    LET hypotheses == Get(rsn, "hypotheses", <<>>)
        top_hypothesis == Decider_get_top_hypothesis(hypotheses)
        cause == Get(top_hypothesis, "cause", "unknown")
    IN  IF Decider_gate(obs)
        THEN Decider_block("Low observation confidence", obs, rsn)
        ELSE Decider_finalize(Decider_policy(cause), obs, rsn)

----------------------------------------------------------------------------
(* agent/act.py *)

Actor_monitor(d) ==
    [action |-> "monitoring", note |-> Get(d, "reason", None)]

Actor_support_guidance(d) ==
    [action |-> "support_guidance_prepared",
     message |-> "Provide merchant with migration checklist, webhook verification steps, and API credential validation.",
     reason |-> Get(d, "reason", None)]

Actor_escalate_engineering(d) ==
    [action |-> "engineering_escalation_created",
     severity |-> Get(d, "severity", None),
     summary |-> "Potential platform regression detected during headless migration."]

\* the dispatcher without its support_guidance branch
Actor_execute_without_guidance(d) ==
    IF Is(d, "type", "monitor_only") THEN Actor_monitor(d)
    ELSE IF Is(d, "type", "escalate_engineering")
         THEN Actor_escalate_engineering(d)
    ELSE None

Actor_execute(d) ==
    IF Is(d, "type", "monitor_only") THEN Actor_monitor(d)
    ELSE IF Is(d, "type", "support_guidance") THEN Actor_support_guidance(d)
    ELSE IF Is(d, "type", "escalate_engineering")
         THEN Actor_escalate_engineering(d)
    ELSE None

Actor_requires_approval(d) == Truthy(d, "requires_human_approval")

\* the loop of act, lines 19-26: the decisions it queues
RECURSIVE Actor_pending(_)
Actor_pending(ds) ==
    IF ds = <<>> THEN <<>>
    ELSE IF Actor_requires_approval(Head(ds))
         THEN <<Head(ds)>> \o Actor_pending(Tail(ds))
         ELSE Actor_pending(Tail(ds))

\* the loop of act with the `continue` of line 22 missing
RECURSIVE Actor_taken_executes_all(_)
Actor_taken_executes_all(ds) ==
    IF ds = <<>> THEN <<>>
    ELSE LET action == Actor_execute(Head(ds))
         IN  IF action # None
             THEN <<action>> \o Actor_taken_executes_all(Tail(ds))
             ELSE Actor_taken_executes_all(Tail(ds))

\* the loop of act, lines 19-26: the actions it takes
RECURSIVE Actor_taken(_)
Actor_taken(ds) ==
    IF ds = <<>> THEN <<>>
    ELSE IF Actor_requires_approval(Head(ds))
         THEN Actor_taken(Tail(ds))
         ELSE LET action == Actor_execute(Head(ds))
              IN  IF action # None
                  THEN <<action>> \o Actor_taken(Tail(ds))
                  ELSE Actor_taken(Tail(ds))

Actor_state_update(decision_output, t) ==
    [timestamp |-> t,
     observation_id |-> decision_output.observation_id,
     actions_taken |-> Actor_taken(Get(decision_output, "decisions", <<>>)),
     pending_approvals |-> Actor_pending(Get(decision_output, "decisions", <<>>)),
     risk_level |-> Get(decision_output, "risk_level", None)]

\* _write_state, lines 92-99: what `existing` is before the append
Actor_read_existing(file) ==
    IF ~file.exists THEN <<>>
    ELSE IF file.ok THEN file.recs
    ELSE <<>>

\* act lines 16-35 and _write_state lines 92-101
ActBegin ==
    /\ actPc = "idle"
    /\ decision # None
    /\ now < MaxTime
    /\ actUpdate' = Actor_state_update(decision, now)
    /\ now' = now + 1
    /\ actReadFailed' = (stateFile.exists /\ ~stateFile.ok)
    /\ actExisting' = Append(Actor_read_existing(stateFile), actUpdate')
    /\ actPc' = "loaded"
    /\ UNCHANGED <<observerVars, observation, reasonerVars, reasoning,
                   decision, stateFile, acts, memoryVars>>

\* _write_state line 103: open(STATE_FILE, "w") truncates the file
ActOpen ==
    /\ actPc = "loaded"
    /\ stateFile' = [exists |-> TRUE, ok |-> FALSE, recs |-> <<>>]
    /\ actPc' = "opened"
    /\ UNCHANGED <<observerVars, observation, reasonerVars, reasoning,
                   decision, actUpdate, actExisting, actReadFailed, acts,
                   memoryVars, now>>

\* _write_state line 104 and act line 37: json.dump, close, return
ActDump ==
    /\ actPc = "opened"
    /\ stateFile' = [exists |-> TRUE, ok |-> TRUE, recs |-> actExisting]
    /\ actPc' = "returned"
    /\ acts' = Append(acts, actUpdate)
    /\ UNCHANGED <<observerVars, observation, reasonerVars, reasoning,
                   decision, actUpdate, actExisting, actReadFailed,
                   memoryVars, now>>

----------------------------------------------------------------------------
(* agent/memory.py *)

\* the two callers a host process may run side by side
Callers == {1, 2}

\* Memory.__init__, lines 17-18: the file holds "[]"
EmptyCollection == [exists |-> TRUE, ok |-> TRUE, recs |-> <<>>]

\* open(path, "w"): the file is there and holds no text
Truncated == [exists |-> TRUE, ok |-> FALSE, recs |-> <<>>]

\* json.dump(records, f) run to its end
Written(records) == [exists |-> TRUE, ok |-> TRUE, recs |-> records]

\* the incident of record_incident, lines 31-39; uuid4 gives a fresh id
Memory_incident(id, t, obs, rsn, dec, action) ==
    [incident_id |-> id,
     timestamp |-> t,
     observation |-> obs,
     reasoning |-> rsn,
     decision |-> dec,
     action |-> action,
     outcome |-> None]

\* memory.insert(0, incident) in place of memory.append(incident)
Memory_prepend(memory, incident) == <<incident>> \o memory

\* memory.append(incident), line 42
Memory_append(memory, incident) == Append(memory, incident)

\* {"timestamp": time.time(), **outcome}, lines 60-63
Memory_outcome(t, outcome) == [timestamp |-> t] @@ outcome

\* the index of the first entry with that id, 0 when there is none
Memory_find(memory, incident_id) ==
    IF \E i \in DOMAIN memory : memory[i].incident_id = incident_id
    THEN CHOOSE i \in DOMAIN memory :
            /\ memory[i].incident_id = incident_id
            /\ \A j \in DOMAIN memory :
                  memory[j].incident_id = incident_id => i <= j
    ELSE 0

\* the loop of update_outcome, lines 58-64
Memory_attach(memory, incident_id, t, outcome) ==
    LET i == Memory_find(memory, incident_id)
    IN  IF i = 0 THEN memory
        ELSE [memory EXCEPT ![i].outcome = Memory_outcome(t, outcome)]

\* how long the text of an incident is: an attached outcome makes it longer
TextLen(incident) == IF incident.outcome = None THEN 2 ELSE 3

RECURSIVE TextSize(_)
TextSize(records) ==
    IF records = <<>> THEN 0
    ELSE TextLen(Head(records)) + TextSize(Tail(records))

\* record_incident lines 31-42: the incident is built, the file is read
\* (_load raises when its text does not parse) and the incident appended
MemRecordBegin(p, obs, rsn, dec, action) ==
    /\ memPc[p] = "idle"
    /\ Len(calls) + Cardinality({q \in Callers : memPc[q] # "idle"}) < MaxCalls
    /\ LET incident == Memory_incident(nextId, now, obs, rsn, dec, action)
       IN  /\ memCall' = [memCall EXCEPT ![p] =
                  [op |-> "record_incident", incident |-> incident]]
           /\ IF memFile.ok
              THEN /\ memLocal' = [memLocal EXCEPT ![p] =
                          Memory_append(memFile.recs, incident)]
                   /\ memPc' = [memPc EXCEPT ![p] = "loaded"]
                   /\ memResult' = [memResult EXCEPT ![p] = "running"]
                   /\ UNCHANGED calls
              ELSE /\ memResult' = [memResult EXCEPT ![p] = "raised"]
                   /\ calls' = Append(calls, [op |-> "raised"])
                   /\ UNCHANGED <<memLocal, memPc>>
    /\ nextId' = nextId + 1
    /\ now' = now + 1
    /\ UNCHANGED <<memFile, pipelineVars>>

\* update_outcome lines 56-64: the file is read and the outcome attached to
\* the first entry with that id; time.time() is read only when one is found
MemUpdateBegin(p, incident_id, outcome) ==
    /\ memPc[p] = "idle"
    /\ Len(calls) + Cardinality({q \in Callers : memPc[q] # "idle"}) < MaxCalls
    /\ memCall' = [memCall EXCEPT ![p] =
           [op |-> "update_outcome", incident_id |-> incident_id,
            outcome |-> Memory_outcome(now, outcome)]]
    /\ IF memFile.ok
       THEN /\ memLocal' = [memLocal EXCEPT ![p] =
                   Memory_attach(memFile.recs, incident_id, now, outcome)]
            /\ memPc' = [memPc EXCEPT ![p] = "loaded"]
            /\ memResult' = [memResult EXCEPT ![p] = "running"]
            /\ now' = IF Memory_find(memFile.recs, incident_id) = 0
                      THEN now ELSE now + 1
            /\ UNCHANGED calls
       ELSE /\ memResult' = [memResult EXCEPT ![p] = "raised"]
            /\ calls' = Append(calls, [op |-> "raised"])
            /\ UNCHANGED <<memLocal, memPc, now>>
    /\ UNCHANGED <<memFile, nextId, pipelineVars>>

\* _save line 101: open(MEMORY_FILE, "w") truncates the file
MemOpen(p) ==
    /\ memPc[p] = "loaded"
    /\ memFile' = Truncated
    /\ memPc' = [memPc EXCEPT ![p] = "opened"]
    /\ UNCHANGED <<memLocal, memCall, memResult, nextId, calls, now,
                   pipelineVars>>

\* _save line 102 and the return: the text is written from offset 0 and the
\* file closed. Text another writer put there since the open and that reaches
\* beyond this one stays behind it, and the whole no longer parses.
MemDump(p) ==
    /\ memPc[p] = "opened"
    /\ memFile' = IF TextSize(memLocal[p]) < TextSize(memFile.recs)
                  THEN [exists |-> TRUE, ok |-> FALSE, recs |-> memLocal[p]]
                  ELSE Written(memLocal[p])
    /\ memPc' = [memPc EXCEPT ![p] = "idle"]
    /\ memResult' = [memResult EXCEPT ![p] = "returned"]
    /\ calls' = Append(calls, memCall[p])
    /\ UNCHANGED <<memLocal, memCall, nextId, now, pipelineVars>>

\* AgentRunner.__init__ has built Memory and no call was made
MemoryIdle ==
    /\ memFile = EmptyCollection
    /\ memPc = [p \in Callers |-> "idle"]
    /\ memCall = [p \in Callers |-> None]
    /\ memLocal = [p \in Callers |-> <<>>]
    /\ memResult = [p \in Callers |-> "none"]
    /\ nextId = 1
    /\ calls = <<>>

----------------------------------------------------------------------------
(* Decider.decide and Actor.act on every Observation and Reasoning *)

Causes ==
    {"platform_regression", "webhook_auth_failure", "frontend_backend_mismatch",
     "migration_misconfiguration", "normal_operation", "unknown", "disk_full"}

HypConfs == {40, 80}

ObsConfs == {50, 59, 60, 90}

HypothesisInputs ==
    {[cause |-> c, confidence |-> k] : c \in Causes, k \in HypConfs}
    \cup {[cause |-> c] : c \in Causes}
    \cup {[confidence |-> k] : k \in HypConfs}

NoFile == [exists |-> FALSE, ok |-> FALSE, recs |-> <<>>]

ActorIdle ==
    /\ actPc = "idle"
    /\ actUpdate = None
    /\ actExisting = <<>>
    /\ actReadFailed = FALSE
    /\ stateFile = NoFile
    /\ acts = <<>>
    /\ MemoryIdle
    /\ now = 0

\* Observer and Reasoner take no part: the Observation and the Reasoning are given
UpstreamIdle ==
    /\ raw = None
    /\ obsCounter = 0
    /\ llmConfigured = FALSE
    /\ useLlmEnv = FALSE
    /\ reasonPc = "idle"
    /\ wire = None

InitPolicy ==
    /\ observation \in [observation_id : {1}, confidence : ObsConfs]
    /\ reasoning \in [hypotheses : SeqUpTo(HypothesisInputs, MaxHyps),
                      confidence : HypConfs]
    /\ decision = None
    /\ UpstreamIdle
    /\ ActorIdle

\* AgentRunner.run_once line 112
Decide ==
    /\ observation # None
    /\ reasoning # None
    /\ decision = None
    /\ decision' = Decider_decide(observation, reasoning)
    /\ UNCHANGED <<observerVars, observation, reasonerVars, reasoning,
                   actorVars, memoryVars, now>>

NextPolicy == Decide \/ ActBegin \/ ActOpen \/ ActDump

SpecPolicy == InitPolicy /\ [][NextPolicy]_vars

----------------------------------------------------------------------------
(* Actor.act on every decision set *)

DecisionTypes ==
    {"monitor_only", "support_guidance", "escalate_engineering",
     "documentation_update_suggestion", "block_auto_actions",
     "rollback_release"}

DecisionInputs ==
    {[type |-> t, reason |-> "r", severity |-> "high",
      requires_human_approval |-> a] : t \in DecisionTypes, a \in BOOLEAN}
    \cup {[type |-> t, reason |-> "r", severity |-> "high"] : t \in DecisionTypes}

InitAct ==
    /\ observation = [observation_id |-> 1, confidence |-> 90]
    /\ reasoning = [hypotheses |-> <<>>, confidence |-> 40]
    /\ decision \in [observation_id : {1},
                     decisions : SeqUpTo(DecisionInputs, MaxDecisions),
                     risk_level : {"low"}]
    /\ UpstreamIdle
    /\ ActorIdle

NextAct == ActBegin \/ ActOpen \/ ActDump

SpecAct == InitAct /\ [][NextAct]_vars

----------------------------------------------------------------------------
(* Observer.observe and Reasoner.reason on the driver's signal batches and
   on every outcome of the delegate's exchange *)

Rep(n, x) == [i \in 1..n |-> x]

scenario_checkout_failure ==
    [tickets |-> [i \in 1..25 |-> [id |-> i - 1]],
     errors |-> Rep(10, [type |-> "checkout_timeout", service |-> "checkout"]),
     checkouts |-> Rep(8, [status |-> "failed"]),
     webhooks |-> <<>>,
     migration_states |-> <<[stage |-> "post-cutover"]>>]

scenario_webhook_failure ==
    [tickets |-> [i \in 1..15 |-> [id |-> i - 1]],
     errors |-> Rep(6, [type |-> "webhook_401", service |-> "webhook"]),
     checkouts |-> Rep(20, [status |-> "success"]),
     webhooks |-> Rep(6, [status |-> "failed"]),
     migration_states |-> <<[stage |-> "post-cutover"]>>]

scenario_frontend_mismatch ==
    [tickets |-> [i \in 1..10 |-> [id |-> i - 1]],
     errors |-> Rep(5, [type |-> "frontend_state_mismatch",
                        service |-> "frontend"]),
     checkouts |-> Rep(15, [status |-> "success"]),
     webhooks |-> <<>>,
     migration_states |-> <<[stage |-> "stable"]>>]

scenario_healthy_system ==
    [tickets |-> <<[id |-> 1], [id |-> 2]>>,
     errors |-> <<>>,
     checkouts |-> Rep(30, [status |-> "success"]),
     webhooks |-> <<>>,
     migration_states |-> <<[stage |-> "stable"]>>]

SCENARIOS ==
    {scenario_checkout_failure, scenario_webhook_failure,
     scenario_frontend_mismatch, scenario_healthy_system}

\* a batch with no bucket at all
EmptyBatch == EmptyDict

\* a dict that may lack the key
OptField(key, values) == {EmptyDict} \cup {key :> v : v \in values}

EntryObjects ==
    {c @@ k : c \in {EmptyDict,
                     [cause |-> "platform_regression", explanation |-> "e"]},
              k \in OptField("confidence",
                             {JNum(65), JNum(150), JStr("0.65"), JStr("high"),
                              JNull})}

Entries ==
    {JObj(o) : o \in EntryObjects} \cup {JStr("webhook_auth_failure"), JNum(7)}

Responses ==
    {a @@ b @@ c @@ d :
        a \in OptField("confidence", {JNum(70), JNum(150), JStr("high")}),
        b \in OptField("hypotheses",
                 {JList(es) : es \in SeqUpTo(Entries, MaxEntries)}
                 \cup {JStr("none")}),
        c \in OptField("assumptions",
                 {JList(<<JStr("a")>>),
                  JList(<<JObj([description |-> "d"]), JObj([note |-> "n"])>>),
                  JNull}),
        d \in OptField("unknowns", {JList(<<JStr("u")>>), JNum(3)})}

FailureKinds ==
    {"timeout", "connection_error", "http_error", "body_not_json",
     "text_absent", "text_not_string", "text_blank", "text_not_json",
     "text_json_not_object"}

Wires ==
    {[kind |-> k] : k \in FailureKinds}
    \cup {[kind |-> "text_json_object", parsed |-> r] : r \in Responses}

DownstreamIdle ==
    /\ decision = None
    /\ ActorIdle

InitReason ==
    /\ raw \in SCENARIOS \cup {EmptyBatch}
    /\ obsCounter = 0
    /\ observation = None
    /\ llmConfigured \in BOOLEAN
    /\ useLlmEnv \in BOOLEAN
    /\ reasonPc = "idle"
    /\ wire = None
    /\ reasoning = None
    /\ DownstreamIdle

NextReason ==
    \/ Observe
    \/ ReasonDeterministic
    \/ ReasonCallDelegate
    \/ DelegateReturns(Wires)

SpecReason == InitReason /\ [][NextReason]_vars

----------------------------------------------------------------------------
(* Memory.record_incident and Memory.update_outcome, one call at a time and
   two callers side by side *)

OutcomeInputs == {[status |-> "resolved"], [status |-> "reopened"]}

PipelineIdle ==
    /\ UpstreamIdle
    /\ observation = None
    /\ reasoning = None
    /\ decision = None

InitMemory ==
    /\ PipelineIdle
    /\ ActorIdle

\* no other caller is inside a Memory call
Alone(p) == \A q \in Callers \ {p} : memPc[q] = "idle"

\* run_once lines 115-120 with the cycle's values left out
RecordCall(p) ==
    MemRecordBegin(p, [observation_id |-> nextId],
                   [reasoning_mode |-> "deterministic"],
                   [risk_level |-> "low"], [risk_level |-> "low"])

\* the feedback process attaches an outcome to an id it was given, or to
\* one that is not in the collection (0)
UpdateCall(p) ==
    \E incident_id \in 0..(nextId - 1), outcome \in OutcomeInputs :
        MemUpdateBegin(p, incident_id, outcome)

NextMemorySeq ==
    \E p \in Callers :
        \/ Alone(p) /\ RecordCall(p)
        \/ Alone(p) /\ UpdateCall(p)
        \/ MemOpen(p)
        \/ MemDump(p)

SpecMemorySeq == InitMemory /\ [][NextMemorySeq]_vars

NextMemoryConc ==
    \E p \in Callers :
        \/ RecordCall(p)
        \/ UpdateCall(p)
        \/ MemOpen(p)
        \/ MemDump(p)

SpecMemoryConc == InitMemory /\ [][NextMemoryConc]_vars

----------------------------------------------------------------------------
(* The driver's loop: decide, act, record_incident, cycle after cycle, in a
   process that may be stopped at any point and started again *)

\* the text that reached the disk when a write was cut short: some of the
\* records, and nothing that parses
CutShort(records) ==
    {[exists |-> TRUE, ok |-> FALSE, recs |-> SubSeq(records, 1, k)] :
        k \in 0..(Len(records) - 1)}

CycleObservation == [observation_id |-> 1, confidence |-> 90]

CycleReasonings ==
    {[hypotheses |-> <<[cause |-> c, confidence |-> 80]>>, confidence |-> 80] :
        c \in {"normal_operation", "frontend_backend_mismatch"}}

InitCycle ==
    /\ UpstreamIdle
    /\ observation = CycleObservation
    /\ reasoning \in CycleReasonings
    /\ decision = None
    /\ ActorIdle

\* run_once lines 115-120
CycleRecord ==
    /\ actPc = "returned"
    /\ memResult[1] = "none"
    /\ MemRecordBegin(1, observation, reasoning, decision, actUpdate)

\* the loop of __main__, lines 135-147: the next pass
CycleNext ==
    /\ actPc = "returned"
    /\ memPc[1] = "idle"
    /\ memResult[1] = "returned"
    /\ reasoning' \in CycleReasonings
    /\ decision' = None
    /\ actPc' = "idle"
    /\ actUpdate' = None
    /\ actExisting' = <<>>
    /\ actReadFailed' = FALSE
    /\ memResult' = [memResult EXCEPT ![1] = "none"]
    /\ UNCHANGED <<observerVars, observation, reasonerVars, stateFile, acts,
                   memFile, memPc, memCall, memLocal, nextId, calls, now>>

\* the process ends (an interrupt, or the exception record_incident raised)
\* and is started again: AgentRunner.__init__, lines 101-107. A file that was
\* open for writing keeps what had reached it.
Restart ==
    /\ stateFile' \in
           IF actPc = "opened" THEN CutShort(actExisting) ELSE {stateFile}
    /\ memFile' \in
           IF memPc[1] = "opened" THEN CutShort(memLocal[1]) ELSE {memFile}
    /\ reasoning' \in CycleReasonings
    /\ decision' = None
    /\ actPc' = "idle"
    /\ actUpdate' = None
    /\ actExisting' = <<>>
    /\ actReadFailed' = FALSE
    /\ memPc' = [p \in Callers |-> "idle"]
    /\ memLocal' = [p \in Callers |-> <<>>]
    /\ memResult' = [p \in Callers |-> "none"]
    /\ UNCHANGED <<observerVars, observation, reasonerVars, acts, memCall,
                   nextId, calls, now>>

NextCycle ==
    \/ Decide
    \/ ActBegin
    \/ ActOpen
    \/ ActDump
    \/ CycleRecord
    \/ MemOpen(1)
    \/ MemDump(1)
    \/ CycleNext
    \/ Restart

SpecCycle == InitCycle /\ [][NextCycle]_vars

----------------------------------------------------------------------------
(* Observer.observe over signal batches: each bucket absent, null, empty or
   holding a record *)

BucketNames == {"tickets", "errors", "checkouts", "webhooks", "migration_states"}

Batches ==
    {a @@ b @@ c @@ d @@ e :
        a \in OptField("tickets", {<<>>, NullBucket, <<[id |-> 1]>>}),
        b \in OptField("errors",
                 {<<>>, NullBucket, <<[type |-> "webhook_401"]>>,
                  <<[service |-> "checkout"]>>}),
        c \in OptField("checkouts",
                 {<<>>, NullBucket, <<[status |-> "failed"]>>,
                  <<[status |-> "success"], [total |-> 10]>>}),
        d \in OptField("webhooks", {<<>>, NullBucket, <<[status |-> "failed"]>>}),
        e \in OptField("migration_states",
                 {<<>>, NullBucket, <<[stage |-> "stable"]>>})}

ReasonerIdle ==
    /\ llmConfigured = FALSE
    /\ useLlmEnv = FALSE
    /\ reasonPc = "idle"
    /\ wire = None
    /\ reasoning = None

InitObserve ==
    /\ raw \in Batches
    /\ obsCounter = 0
    /\ observation = None
    /\ ReasonerIdle
    /\ DownstreamIdle

NextObserve == Observe

SpecObserve == InitObserve /\ [][NextObserve]_vars

----------------------------------------------------------------------------
(* the deterministic strategy over Observations whose counts lie on both
   sides of every threshold *)

ErrorTypeCounts ==
    {a @@ b @@ c :
        a \in OptField("webhook_401", {2, 3}),
        b \in OptField("frontend_state_mismatch", {2, 3, 5}),
        c \in OptField("unknown", {9, 10})}

StatsInputs ==
    {EmptyDict}
    \cup {a @@ b :
            a \in OptField("failed_checkouts", {0, 4, 5, 8}),
            b \in OptField("error_types", ErrorTypeCounts)}

RuleObservations ==
    {[observation_id |-> 1, confidence |-> 90, anomalies |-> <<>>] @@ st :
        st \in OptField("stats", StatsInputs)}

InitRules ==
    /\ raw = None
    /\ obsCounter = 0
    /\ observation \in RuleObservations
    /\ llmConfigured \in BOOLEAN
    /\ useLlmEnv \in BOOLEAN
    /\ reasonPc = "idle"
    /\ wire = None
    /\ reasoning = None
    /\ DownstreamIdle

NextRules == ReasonDeterministic

SpecRules == InitRules /\ [][NextRules]_vars

----------------------------------------------------------------------------
(* AgentRunner.run_once: one cycle from the batch to the recorded incident *)

\* what the delegate may answer in a cycle: no answer, or one hypothesis
RunWires ==
    {[kind |-> "timeout"]}
    \cup {[kind |-> "text_json_object",
           parsed |-> [confidence |-> JNum(70),
                       hypotheses |-> JList(<<JObj([cause |-> c,
                                                    explanation |-> "e",
                                                    confidence |-> JNum(65)])>>)]] :
            c \in {"platform_regression", "migration_misconfiguration",
                   "frontend_backend_mismatch", "normal_operation"}}

\* AgentRunner.__init__, lines 101-107: the Reasoner is given a delegate;
\* USE_LLM is whatever the environment holds
InitRun ==
    /\ raw \in SCENARIOS \cup Batches
    /\ obsCounter = 0
    /\ observation = None
    /\ llmConfigured = TRUE
    /\ useLlmEnv \in BOOLEAN
    /\ reasonPc = "idle"
    /\ wire = None
    /\ reasoning = None
    /\ DownstreamIdle

NextRun ==
    \/ Observe
    \/ ReasonDeterministic
    \/ ReasonCallDelegate
    \/ DelegateReturns(RunWires)
    \/ Decide
    \/ ActBegin
    \/ ActOpen
    \/ ActDump
    \/ CycleRecord
    \/ MemOpen(1)
    \/ MemDump(1)

SpecRun == InitRun /\ [][NextRun]_vars

----------------------------------------------------------------------------
(* Claims about Decider.decide *)

Decided == decision # None

Gated == observation.confidence < 60

\* what a claim says of a decision: its variant, its approval flag, its severity
Kind(d) ==
    [type |-> d.type, approval |-> d.requires_human_approval,
     severity |-> Get(d, "severity", "none")]

Kinds(ds) == [i \in DOMAIN ds |-> Kind(ds[i])]

K(type, approval) == [type |-> type, approval |-> approval, severity |-> "none"]

\* C1: for an Observation of confidence below 0.6 and any Reasoning, decide
\* returns exactly one decision, block_auto_actions requiring approval, with
\* risk_level high, whatever the hypotheses are.
C1_LowConfidenceBlocks ==
    (Decided /\ Gated) =>
        /\ Kinds(decision.decisions) = <<K("block_auto_actions", TRUE)>>
        /\ decision.risk_level = "high"

\* the hypotheses alone would have asked for an escalation
C1_Witness ==
    /\ Decided /\ Gated
    /\ Len(reasoning.hypotheses) = 2
    /\ reasoning.hypotheses[1] =
           [cause |-> "platform_regression", confidence |-> 80]
    /\ reasoning.hypotheses[2] = [cause |-> "normal_operation", confidence |-> 40]
    /\ observation.confidence = 59

\* the policy table as the specification states it
PolicyTable(cause) ==
    CASE cause = "platform_regression" ->
           <<[type |-> "escalate_engineering", approval |-> FALSE,
              severity |-> "high"]>>
      [] cause \in {"webhook_auth_failure", "migration_misconfiguration"} ->
           <<K("support_guidance", FALSE)>>
      [] cause = "frontend_backend_mismatch" ->
           <<K("documentation_update_suggestion", TRUE), K("monitor_only", FALSE)>>
      [] OTHER -> <<K("monitor_only", FALSE)>>

\* i is the earliest hypothesis of highest confidence (absent confidence is 0)
IsTop(hs, i) ==
    /\ i \in DOMAIN hs
    /\ \A j \in DOMAIN hs : HypKey(hs[j]) <= HypKey(hs[i])
    /\ \A j \in DOMAIN hs : j < i => HypKey(hs[j]) < HypKey(hs[i])

\* C9: for an Observation of confidence >= 0.6, the decisions are those of the
\* policy table for the cause of the earliest hypothesis of highest
\* confidence; no hypothesis, or one with no cause, gives monitor_only.
C9_PolicyOfTopHypothesis ==
    (Decided /\ ~Gated) =>
        LET hs == reasoning.hypotheses
        IN  /\ hs = <<>> => Kinds(decision.decisions) = PolicyTable("unknown")
            /\ \A i \in DOMAIN hs : IsTop(hs, i) =>
                   Kinds(decision.decisions) =
                       PolicyTable(Get(hs[i], "cause", "unknown"))

\* two hypotheses tie at the highest confidence and the first one decides
C9_Witness ==
    /\ Decided /\ ~Gated
    /\ Len(reasoning.hypotheses) = 2
    /\ reasoning.hypotheses[1] =
           [cause |-> "frontend_backend_mismatch", confidence |-> 80]
    /\ reasoning.hypotheses[2] =
           [cause |-> "platform_regression", confidence |-> 80]
    /\ Len(decision.decisions) = 2

\* the aggregate of a decision set as the specification states it
Aggregate(ds) ==
    IF \E i \in DOMAIN ds : ds[i].type = "escalate_engineering" THEN "high"
    ELSE IF \E i \in DOMAIN ds : ds[i].requires_human_approval THEN "medium"
    ELSE "low"

\* C10 as stated: every result of decide carries the aggregate of its
\* decisions as risk_level.
C10_RiskIsAggregate ==
    Decided => decision.risk_level = Aggregate(decision.decisions)

\* C10 amended: a result of decide that does not come from the safety gate
\* carries the aggregate of its decisions as risk_level; the safety gate's
\* result carries high, though its one decision is no escalation.
C10_RiskIsAggregateUnlessGated ==
    Decided =>
        decision.risk_level =
            IF Gated THEN "high" ELSE Aggregate(decision.decisions)

\* a decision set that requires approval and holds no escalation: medium
C10_Witness ==
    /\ Decided /\ ~Gated
    /\ \E i \in DOMAIN decision.decisions :
           decision.decisions[i].requires_human_approval
    /\ decision.risk_level = "medium"

----------------------------------------------------------------------------
(* Claims about Reasoner.reason *)

\* the delegate strategy was selected and its exchange has ended
DelegateAnswered == reasonPc = "returned" /\ wire # None

\* the call of the delegate raised: no JSON object came back
CallFailed(w) == w.kind # "text_json_object"

IsString(j) == j.t = "str"

IsNumber(j) == j.t = "num"

\* the entry is {cause: string, explanation: string, confidence: number}
EntryConforms(h) ==
    /\ h.t = "obj"
    /\ {"cause", "explanation", "confidence"} \subseteq DOMAIN h.fields
    /\ IsNumber(h.fields.confidence)

ListOf(j, Conforms(_)) ==
    j.t = "list" /\ \A i \in DOMAIN j.items : Conforms(j.items[i])

\* the response is {hypotheses: [entry], assumptions: [string],
\* unknowns: [string], confidence: number}
SchemaConforms(r) ==
    /\ {"hypotheses", "assumptions", "unknowns", "confidence"} \subseteq DOMAIN r
    /\ IsNumber(r.confidence)
    /\ ListOf(r.hypotheses, EntryConforms)
    /\ ListOf(r.assumptions, IsString)
    /\ ListOf(r.unknowns, IsString)

DelegateFailed(w) == CallFailed(w) \/ ~SchemaConforms(w.parsed)

\* the fallback Reasoning: one hypothesis unknown at 0.4, the reason recorded
IsFallback(rsn) ==
    /\ rsn.reasoning_mode = "llm_failed"
    /\ Len(rsn.hypotheses) = 1
    /\ rsn.hypotheses[1].cause = "unknown"
    /\ rsn.hypotheses[1].confidence = 40
    /\ "error" \in DOMAIN rsn

NotConvertible(j) == ~IsNumber(j) /\ ~(IsString(j) /\ j.str = "0.65")

\* normalising the response raises: a hypothesis object whose confidence
\* float() rejects, or assumptions or unknowns that cannot be iterated
NormalisationRaises(r) ==
    \/ /\ "hypotheses" \in DOMAIN r
       /\ r.hypotheses.t = "list"
       /\ \E i \in DOMAIN r.hypotheses.items :
             LET h == r.hypotheses.items[i]
             IN  /\ h.t = "obj"
                 /\ "confidence" \in DOMAIN h.fields
                 /\ NotConvertible(h.fields.confidence)
    \/ "assumptions" \in DOMAIN r /\ r.assumptions.t # "list"
    \/ "unknowns" \in DOMAIN r /\ r.unknowns.t # "list"

----------------------------------------------------------------------------
(* Claims about Memory *)

\* no Memory call is in progress
Quiescent == \A p \in Callers : memPc[p] = "idle"

\* the incidents of the record_incident calls that returned, in order
RECURSIVE RecordedBy(_)
RecordedBy(cs) ==
    IF cs = <<>> THEN <<>>
    ELSE IF Head(cs).op = "record_incident"
         THEN <<Head(cs).incident>> \o RecordedBy(Tail(cs))
         ELSE RecordedBy(Tail(cs))

\* the collection with every outcome set aside
WithoutOutcomes(records) ==
    [i \in DOMAIN records |-> [records[i] EXCEPT !.outcome = None]]

\* C4: after calls made one at a time the persisted collection is the
\* incidents recorded so far, each once, in the order of their recording,
\* every field but outcome as recorded.
C4_AppendOnly ==
    Quiescent =>
        /\ memFile.ok
        /\ WithoutOutcomes(memFile.recs) = RecordedBy(calls)

\* two incidents recorded around an outcome attached to the first
C4_Witness ==
    /\ Quiescent
    /\ Len(calls) = 3
    /\ calls[1].op = "record_incident"
    /\ calls[2].op = "update_outcome" /\ calls[2].incident_id = 1
    /\ calls[3].op = "record_incident"
    /\ Len(memFile.recs) = 2
    /\ memFile.recs[1].outcome # None

\* the outcomes the update_outcome calls that returned gave to that id
RECURSIVE AttachedTo(_, _)
AttachedTo(incident_id, cs) ==
    IF cs = <<>> THEN <<>>
    ELSE IF Head(cs).op = "update_outcome" /\ Head(cs).incident_id = incident_id
         THEN <<Head(cs).outcome>> \o AttachedTo(incident_id, Tail(cs))
         ELSE AttachedTo(incident_id, Tail(cs))

\* C5: an incident's outcome is null until the first update_outcome for its
\* id, and from then on it is that first outcome with its attachment time.
C5_OutcomeAttachedOnce ==
    Quiescent =>
        \A i \in DOMAIN memFile.recs :
            LET attached == AttachedTo(memFile.recs[i].incident_id, calls)
            IN  memFile.recs[i].outcome =
                    IF attached = <<>> THEN None ELSE attached[1]

\* C6: at every moment a reader of the file finds a complete collection,
\* the one before the call in progress or the one after it.
C6_ReaderSeesWholeCollection ==
    /\ memFile.ok
    /\ \/ WithoutOutcomes(memFile.recs) = RecordedBy(calls)
       \/ \E p \in Callers :
             /\ memPc[p] # "idle"
             /\ memFile.recs = memLocal[p]

\* C7: whatever the interleaving of two callers, once both calls returned
\* the collection holds every incident recorded and, for every incident
\* that was given an outcome, an outcome.
C7_NoCallIsLost ==
    Quiescent =>
        /\ memFile.ok
        /\ \A k \in DOMAIN calls :
              calls[k].op = "record_incident" =>
                  \E i \in DOMAIN memFile.recs :
                      memFile.recs[i].incident_id = calls[k].incident.incident_id
        /\ \A i \in DOMAIN memFile.recs :
              AttachedTo(memFile.recs[i].incident_id, calls) # <<>> =>
                  memFile.recs[i].outcome # None

----------------------------------------------------------------------------
(* Claims about storage failures *)

\* C8: a failed read or write of a persisted log never ends in a normal
\* return: Actor.act does not return after a read of its log failed, a call
\* that returned has left every record of the earlier returned calls in the
\* log, and the same holds of Memory's calls.
C8_StorageFailureSurfaces ==
    /\ actPc = "returned" =>
          /\ ~actReadFailed
          /\ stateFile.ok
          /\ \A k \in DOMAIN acts : acts[k] \in Range(stateFile.recs)
    /\ (memPc[1] = "idle" /\ memResult[1] = "returned") =>
          /\ memFile.ok
          /\ WithoutOutcomes(memFile.recs) = RecordedBy(calls)

----------------------------------------------------------------------------
(* Claims about Actor.act *)

NeedsApproval(d) ==
    "requires_human_approval" \in DOMAIN d /\ d.requires_human_approval

NeedsNoApproval(d) == ~NeedsApproval(d)

Executed(d) == Actor_execute(d) # None

Acted == actUpdate # None

\* C2: a decision requiring approval is never executed: pending_approvals is
\* the input's decisions that require approval, unchanged and in input order,
\* and actions_taken holds one action for each executable decision that
\* requires no approval, in input order, and nothing else.
C2_ApprovalNeverExecuted ==
    Acted =>
        LET ds == decision.decisions
            free == SelectSeq(SelectSeq(ds, NeedsNoApproval), Executed)
        IN  /\ actUpdate.pending_approvals = SelectSeq(ds, NeedsApproval)
            /\ actUpdate.actions_taken =
                   [i \in DOMAIN free |-> Actor_execute(free[i])]

\* an executable decision that requires approval, after one that does not
C2_Witness ==
    /\ actPc = "returned"
    /\ Len(decision.decisions) = 2
    /\ decision.decisions[1].type = "monitor_only"
    /\ NeedsNoApproval(decision.decisions[1])
    /\ decision.decisions[2].type = "escalate_engineering"
    /\ NeedsApproval(decision.decisions[2])
    /\ Len(actUpdate.actions_taken) = 1
    /\ Len(stateFile.recs) = 1

----------------------------------------------------------------------------
(* Claims about Observer.observe *)

\* the buckets of the batch that are absent, empty or null
MissingBuckets(batch) ==
    {k \in BucketNames : k \notin DOMAIN batch \/ Falsy(batch[k])}

\* max(0.5, 1.0 - 0.1 * k), in hundredths
CoverageConfidence(k) == IF 100 - 10 * k > 50 THEN 100 - 10 * k ELSE 50

\* C11: for every batch observe raises nothing and returns the confidence
\* max(0.5, 1.0 - 0.1 * k), k the number of buckets empty or absent, which
\* lies in [0.5, 1.0].
C11_ConfidenceFromCoverage ==
    observation # None =>
        /\ "raised" \notin DOMAIN observation
        /\ observation.confidence =
               CoverageConfidence(Cardinality(MissingBuckets(raw)))
        /\ observation.confidence \in 50..100

\* the same over the batches in which no bucket is null
C11_ConfidenceFromCoverageOfSequences ==
    (observation # None /\ \A k \in DOMAIN raw : raw[k] # NullBucket) =>
        C11_ConfidenceFromCoverage

----------------------------------------------------------------------------
(* Claims about the deterministic strategy *)

\* the rule table of the specification, in its order
RuleTable ==
    <<[cause |-> "migration_misconfiguration", confidence |-> 80],
      [cause |-> "webhook_auth_failure", confidence |-> 70],
      [cause |-> "frontend_backend_mismatch", confidence |-> 65],
      [cause |-> "platform_regression", confidence |-> 60]>>

\* the count a rule looks at; a count that is absent is 0
CountOf(obs, i) ==
    LET stats == IF "stats" \in DOMAIN obs THEN obs.stats ELSE EmptyDict
        types == IF "error_types" \in DOMAIN stats
                 THEN stats.error_types ELSE EmptyDict
    IN  IF i = 1
        THEN (IF "failed_checkouts" \in DOMAIN stats
              THEN stats.failed_checkouts ELSE 0)
        ELSE LET key == <<"", "webhook_401", "frontend_state_mismatch",
                          "unknown">>[i]
             IN  IF key \in DOMAIN types THEN types[key] ELSE 0

RuleFires(obs, i) == CountOf(obs, i) >= <<5, 3, 3, 10>>[i]

RanDeterministic ==
    reasoning # None /\ reasoning.reasoning_mode = "deterministic"

\* C12: the hypotheses of the deterministic strategy are those of the rules
\* that fire, each once and in the order of the table; normal_operation at
\* 0.9 alone exactly when no rule fires; the sequence is never empty and the
\* overall confidence is the largest hypothesis confidence.
C12_RulesThatFire ==
    RanDeterministic =>
        LET hs == reasoning.hypotheses
            At(i) == {j \in DOMAIN hs :
                        /\ hs[j].cause = RuleTable[i].cause
                        /\ hs[j].confidence = RuleTable[i].confidence}
            NoneFires == \A i \in 1..4 : ~RuleFires(observation, i)
        IN  /\ hs # <<>>
            /\ \A i \in 1..4 :
                  Cardinality(At(i)) = IF RuleFires(observation, i) THEN 1 ELSE 0
            /\ \A i1, i2 \in 1..4 : \A j1 \in At(i1), j2 \in At(i2) :
                  i1 < i2 => j1 < j2
            /\ NoneFires <=>
                  /\ Len(hs) = 1
                  /\ hs[1].cause = "normal_operation"
                  /\ hs[1].confidence = 90
            /\ ~NoneFires => \A j \in DOMAIN hs : \E i \in 1..4 : j \in At(i)
            /\ \A j \in DOMAIN hs : hs[j].confidence <= reasoning.confidence
            /\ \E j \in DOMAIN hs : hs[j].confidence = reasoning.confidence

\* the second and the fourth rule fire and the two between and before do not
C12_Witness ==
    /\ RanDeterministic
    /\ ~RuleFires(observation, 1) /\ RuleFires(observation, 2)
    /\ ~RuleFires(observation, 3) /\ RuleFires(observation, 4)
    /\ Len(reasoning.hypotheses) = 2

----------------------------------------------------------------------------
(* Claims about the normalisation of the delegate's hypotheses *)

\* an entry no hypothesis can be made of: neither an object nor a string, or
\* an object whose confidence is not a number float() accepts. An object
\* that lacks a key and a bare string are taken as well-formed here, as the
\* normalisation completes them.
Malformed(h) ==
    \/ h.t \notin {"obj", "str"}
    \/ h.t = "obj" /\ "confidence" \in DOMAIN h.fields
                   /\ NotConvertible(h.fields.confidence)

WellFormed(h) == ~Malformed(h)

\* the delegate returned an object with a hypotheses list, and nothing but
\* that list can make the call fail
HypothesesListAnswered ==
    /\ DelegateAnswered
    /\ ~CallFailed(wire)
    /\ "hypotheses" \in DOMAIN wire.parsed
    /\ wire.parsed.hypotheses.t = "list"
    /\ "assumptions" \in DOMAIN wire.parsed => wire.parsed.assumptions.t = "list"
    /\ "unknowns" \in DOMAIN wire.parsed => wire.parsed.unknowns.t = "list"

CauseOf(h) ==
    IF h.t = "str" THEN h.str
    ELSE IF "cause" \in DOMAIN h.fields THEN h.fields.cause ELSE "unknown"

\* C13: malformed entries of the hypotheses list are dropped and the call
\* does not fail: the Reasoning has the well-formed entries in their order,
\* or the placeholder unknown at 0.4 alone when there is none.
C13_MalformedEntriesDropped ==
    HypothesesListAnswered =>
        LET kept == SelectSeq(wire.parsed.hypotheses.items, WellFormed)
            hs == reasoning.hypotheses
        IN  /\ reasoning.reasoning_mode = "llm"
            /\ IF kept = <<>>
               THEN /\ Len(hs) = 1
                    /\ hs[1].cause = "unknown"
                    /\ hs[1].confidence = 40
               ELSE /\ Len(hs) = Len(kept)
                    /\ \A i \in DOMAIN kept : hs[i].cause = CauseOf(kept[i])

----------------------------------------------------------------------------
(* Claims about the confidences of a Reasoning *)

InUnitInterval(confidence) == confidence \in 0..100

\* C15: every Reasoning that reason returns, in each mode, has an overall
\* confidence in [0, 1] and every hypothesis confidence in [0, 1].
C15_ConfidencesInUnitInterval ==
    reasoning # None =>
        /\ InUnitInterval(reasoning.confidence)
        /\ \A j \in DOMAIN reasoning.hypotheses :
              InUnitInterval(reasoning.hypotheses[j].confidence)

----------------------------------------------------------------------------
(* Claims about Actor.act on the output of Decider.decide *)

\* the action each recognized variant yields
ActionOf(type) ==
    IF type = "monitor_only" THEN "monitoring"
    ELSE IF type = "support_guidance" THEN "support_guidance_prepared"
    ELSE IF type = "escalate_engineering" THEN "engineering_escalation_created"
    ELSE "none"

\* C16: act accounts for each decision of a Decider result exactly once: the
\* ones requiring approval are the pending approvals, every other one is a
\* recognized variant and yields its one action, in the same order, so the
\* two lists together are as long as the decisions.
C16_EveryDecisionAccounted ==
    (Acted /\ Decided) =>
        LET ds == decision.decisions
            free == SelectSeq(ds, NeedsNoApproval)
            taken == actUpdate.actions_taken
        IN  /\ Len(taken) + Len(actUpdate.pending_approvals) = Len(ds)
            /\ actUpdate.pending_approvals = SelectSeq(ds, NeedsApproval)
            /\ Len(taken) = Len(free)
            /\ \A i \in DOMAIN free :
                  /\ free[i].type \in {"monitor_only", "support_guidance",
                                        "escalate_engineering"}
                  /\ i \in DOMAIN taken
                  /\ taken[i].action = ActionOf(free[i].type)

\* a documentation update waiting for approval before a monitor_only that
\* was executed
C16_Witness ==
    /\ actPc = "returned"
    /\ Decided
    /\ Len(decision.decisions) = 2
    /\ decision.decisions[1].type = "documentation_update_suggestion"
    /\ decision.decisions[2].type = "monitor_only"
    /\ Len(actUpdate.actions_taken) = 1
    /\ actUpdate.actions_taken[1].action = "monitoring"
    /\ Len(actUpdate.pending_approvals) = 1

----------------------------------------------------------------------------
(* Claims about a full cycle *)

\* the decision set is the safety gate's
Blocked ==
    /\ Len(decision.decisions) = 1
    /\ decision.decisions[1].type = "block_auto_actions"

\* C17: in a full cycle the safety gate fires exactly when all five buckets
\* of the batch are empty or absent; with one bucket non-empty the
\* confidence is at least 0.6 and nothing is blocked, whatever the Reasoning.
C17_GateIffNoSignal ==
    Decided =>
        /\ Blocked <=> MissingBuckets(raw) = BucketNames
        /\ MissingBuckets(raw) # BucketNames => observation.confidence >= 60

\* one bucket alone holds a record, the delegate gave no answer, and the
\* cycle was not blocked
C17_Witness ==
    /\ Decided
    /\ Cardinality(MissingBuckets(raw)) = 4
    /\ observation.confidence = 60
    /\ reasoning.reasoning_mode = "llm_failed"
    /\ ~Blocked

\* the batch of scenario A: 8 failed checkouts, 10 checkout_timeout errors,
\* 25 tickets, no webhook, one migration state
ScenarioA ==
    /\ raw # None
    /\ DOMAIN raw = BucketNames
    /\ Len(raw.tickets) = 25
    /\ raw.errors = [i \in 1..10 |->
                        [type |-> "checkout_timeout", service |-> "checkout"]]
    /\ raw.checkouts = [i \in 1..8 |-> [status |-> "failed"]]
    /\ raw.webhooks = <<>>
    /\ raw.migration_states # <<>>

\* the stages of scenario A, each as far as the cycle has come
ScenarioAStages ==
    /\ observation # None =>
          /\ observation.confidence = 90
          /\ \E i \in DOMAIN observation.anomalies :
                /\ observation.anomalies[i].type = "checkout_failures"
                /\ observation.anomalies[i].severity = "high"
    /\ reasoning # None =>
          /\ observation # None
          /\ reasoning.reasoning_mode = "deterministic"
          /\ Len(reasoning.hypotheses) = 1
          /\ reasoning.hypotheses[1].cause = "migration_misconfiguration"
          /\ reasoning.hypotheses[1].confidence = 80
    /\ decision # None =>
          /\ reasoning # None
          /\ Len(decision.decisions) = 1
          /\ decision.decisions[1].type = "support_guidance"
          /\ decision.decisions[1].requires_human_approval = FALSE
    /\ actUpdate # None =>
          /\ decision # None
          /\ Len(actUpdate.actions_taken) = 1
          /\ actUpdate.actions_taken[1].action = "support_guidance_prepared"
          /\ actUpdate.pending_approvals = <<>>
    /\ memPc[1] # "idle" => actPc = "returned"
    /\ memResult[1] = "returned" =>
          /\ actPc = "returned"
          /\ Len(memFile.recs) = 1
          /\ memFile.recs[1].decision.risk_level = "low"
          /\ memFile.recs[1].action.risk_level = "low"

\* C14 as stated: a cycle of run_once over the batch of scenario A goes
\* through the five stages in order, the Reasoning being deterministic.
C14_ScenarioA ==
    ScenarioA => ScenarioAStages

\* C14 amended: it does so when USE_LLM is not "true"; when it is, the two
\* anomalies of the batch select the delegate and the Reasoning is the
\* delegate's or the llm_failed fallback.
C14_ScenarioAWithoutDelegate ==
    ScenarioA =>
        IF useLlmEnv
        THEN reasoning # None =>
                reasoning.reasoning_mode \in {"llm", "llm_failed"}
        ELSE ScenarioAStages

\* the cycle over scenario A ran to its recorded incident without the delegate
C14_Witness ==
    /\ ScenarioA
    /\ ~useLlmEnv
    /\ memPc[1] = "idle"
    /\ memResult[1] = "returned"
    /\ Len(memFile.recs) = 1
    /\ memFile.recs[1].reasoning.reasoning_mode = "deterministic"

====
